---- MODULE Spec2Model ----
(***************************************************************************)
(* Model of CommHistory::ContactResolver (src/src/contactresolver.cpp).    *)
(*                                                                         *)
(* The resolver takes lists of events, asks the SeasideCache to resolve    *)
(* their addresses (one request per distinct folded address), counts the   *)
(* addressResolved callbacks, and when every request has completed emits   *)
(* eventsResolved(list) and finished().                                    *)
(*                                                                         *)
(* Strings are sequences of one-character strings, so that case folding    *)
(* and phone number minimization are computed, not assumed.                *)
(***************************************************************************)
EXTENDS Naturals, Sequences, FiniteSets

\* ------------------------------------------------------------------ bounds

\* Events added over one run of the model.
MaxEvents == 3
\* Events in one appendEvents/prependEvents call.
MaxBatch == 2
\* Events added over one run of the ordering specification.
MaxOrderEvents == 4
\* Events added over one run of the liveness specification.
MaxLiveEvents == 3

\* ----------------------------------------------------------------- strings

EmptyStr == <<>>

RECURSIVE SelectChars(_, _)
\* The characters of s that lie in the set keep, in order.
SelectChars(s, keep) ==
    IF s = <<>> THEN <<>>
    ELSE (IF Head(s) \in keep THEN <<Head(s)>> ELSE <<>>) \o SelectChars(Tail(s), keep)

\* The last n characters of s (QString::right).
Right(s, n) == IF Len(s) <= n THEN s ELSE SubSeq(s, Len(s) - n + 1, Len(s))

StartsWith(s, prefix) ==
    /\ Len(prefix) <= Len(s)
    /\ SubSeq(s, 1, Len(prefix)) = prefix

UpperCase == {"A", "B", "C", "O", "T"}

FoldChar(c) ==
    CASE c = "A" -> "a"
      [] c = "B" -> "b"
      [] c = "C" -> "c"
      [] c = "O" -> "o"
      [] c = "T" -> "t"
      [] OTHER -> c

\* QString::toCaseFolded, character by character.
toCaseFolded(s) == [i \in 1..Len(s) |-> FoldChar(s[i])]

Digits == {"0", "1", "2", "3", "4", "5", "6", "7", "8", "9"}
\* Characters a phone number may hold besides its digits.
PhonePunctuation == {"+", "-", " ", "(", ")"}

\* Number of trailing digits compared when matching phone numbers.
DefaultMaximumPhoneNumberCharacters == 7

\* commonutils minimizePhoneNumber: empty for a string that is no phone
\* number, else the trailing digits of the number.
minimizePhoneNumber(number) ==
    IF \E i \in 1..Len(number) : number[i] \notin (Digits \cup PhonePunctuation)
    THEN EmptyStr
    ELSE Right(SelectChars(number, Digits), DefaultMaximumPhoneNumberCharacters)

\* Account path prefix of the telephony (ring) accounts.
RingAccountPath == <<"/", "r", "i", "n", "g", "/">>

\* commonutils localUidComparesPhoneNumbers.
localUidComparesPhoneNumbers(localUid) == StartsWith(localUid, RingAccountPath)

\* --------------------------------------------------------------- addresses

Acct1 == <<"a", "c", "c", "t", "1">>
Acct1Upper == <<"A", "C", "C", "T", "1">>
Acct1Contact == <<"a", "c", "c", "t", "1", "-", "c", "o", "n", "t", "a", "c", "t">>
RingAccount == RingAccountPath \o <<"t", "e", "l">>
PhoneFull == <<"+", "1", "-", "5", "5", "5", "-", "0", "1", "0", "0">>
PhoneShort == <<"5", "5", "5", "0", "1", "0", "0">>
NotANumber == <<"B", "o", "b">>

Uid(l, r) == [localUid |-> l, remoteUid |-> r]

\* The address pairs the events of the model carry.
UidPool ==
    { Uid(EmptyStr, PhoneFull),
      Uid(Acct1, Acct1Contact),
      Uid(Acct1Upper, Acct1Contact),
      Uid(RingAccount, PhoneFull),
      Uid(RingAccount, PhoneShort),
      Uid(Acct1, EmptyStr),
      Uid(EmptyStr, EmptyStr) }

\* The address pairs of the ordering and liveness specifications: two that
\* need a request each (an account pair, and a phone account with a remote
\* address that is no phone number) and one that needs none.
OrderPool ==
    { Uid(Acct1Upper, Acct1Contact),
      Uid(RingAccount, NotANumber),
      Uid(EmptyStr, EmptyStr) }

\* ------------------------------------------------------------------ events

\* An Event as the resolver sees it: its id, its two addresses, and the
\* contacts list that applyResolvedContacts fills in.
Event(id, uid) ==
    [id |-> id, localUid |-> uid.localUid, remoteUid |-> uid.remoteUid, contacts |-> <<>>]

\* typedef QPair<QString, QString> UidPair
UidPair(first, second) == [first |-> first, second |-> second]

\* ------------------------------------------------------------------- state

VARIABLES
    events,             \* d->events: events to be resolved
    requestedAddresses, \* all uidpairs submitted for address resolution
    resolvedAddresses,  \* how many have completed
    resolveTimer,       \* whether resolveTimer has been started
    cache,              \* SeasideCache: the contacts it knows
    pending,            \* SeasideCache: requests whose callback is still to come
    issued,             \* every resolve request made, in call order
    signalLog,          \* every signal emitted, in emission order
    added,              \* every event handed to appendEvents/prependEvents
    sessionOps,         \* the non-empty batches of the current (or last) session
    sessionCount,       \* sessions begun so far
    peeks,              \* events() calls since the last other operation
    returned,           \* what the last of those events() calls returned
    spurious            \* callbacks the cache made without a request

vars == <<events, requestedAddresses, resolvedAddresses, resolveTimer, cache,
          pending, issued, signalLog, added, sessionOps, sessionCount,
          peeks, returned, spurious>>

\* ------------------------------------------------------------ SeasideCache

\* A contact of the cache: its id, display label, and the address it matches.
Contact(iid, label, kind, first, second) ==
    [iid |-> iid, label |-> label, kind |-> kind, first |-> first, second |-> second]

\* The cache contents the model starts from: a contact per raw phone number
\* and one per raw account pair; the other addresses match no contact.
KnownContacts ==
    { Contact(1, "Ann", "phone", EmptyStr, PhoneFull),
      Contact(2, "Bea", "phone", EmptyStr, PhoneShort),
      Contact(3, "Cy", "account", Acct1, Acct1Contact),
      Contact(4, "Di", "account", Acct1Upper, Acct1Contact) }

\* The cache item matching an address, or none: a set of at most one contact.
CacheItems(c, kind, first, second) ==
    {item \in c : item.kind = kind /\ item.first = first /\ item.second = second}

itemByPhoneNumber(c, number) == CacheItems(c, "phone", EmptyStr, number)
itemByEmailAddress(c, address) == CacheItems(c, "email", address, EmptyStr)
itemByOnlineAccount(c, localUid, remoteUid) == CacheItems(c, "account", localUid, remoteUid)

\* A resolve request as the cache receives it.
Request(kind, first, second) == [kind |-> kind, first |-> first, second |-> second]

\* -------------------------------------------------------- address folding

foldedAddress(localUid, remoteUid) ==
    IF localUid = EmptyStr
    THEN LET minimized == minimizePhoneNumber(remoteUid)
             remote == IF minimized = EmptyStr THEN remoteUid ELSE minimized
         IN UidPair(EmptyStr, toCaseFolded(remote))
    ELSE UidPair(toCaseFolded(localUid), toCaseFolded(remoteUid))

foldedEventAddress(localUid, remoteUid) ==
    IF localUidComparesPhoneNumbers(localUid)
    THEN foldedAddress(EmptyStr, remoteUid)
    ELSE UidPair(toCaseFolded(localUid), toCaseFolded(remoteUid))

\* ---------------------------------------------------- ContactResolverPrivate

\* The private object's fields during one handler, with the SeasideCache
\* calls made (calls) and the signals emitted (emitted) by that handler.
Private ==
    [events |-> events,
     requestedAddresses |-> requestedAddresses,
     resolvedAddresses |-> resolvedAddresses,
     calls |-> <<>>,
     emitted |-> <<>>]

\* Mutant: the call chosen with the two emptiness tests swapped.
ResolveCallSwapped(uidPair) ==
    IF uidPair.second = EmptyStr
    THEN Request("phone", EmptyStr, uidPair.second)
    ELSE IF uidPair.first = EmptyStr
         THEN Request("email", uidPair.first, EmptyStr)
         ELSE Request("account", uidPair.first, uidPair.second)

\* The SeasideCache call resolveEvent makes for a folded address.
ResolveCall(uidPair) ==
    IF uidPair.first = EmptyStr
    THEN Request("phone", EmptyStr, uidPair.second)
    ELSE IF uidPair.second = EmptyStr
         THEN Request("email", uidPair.first, EmptyStr)
         ELSE Request("account", uidPair.first, uidPair.second)

\* Mutant: resolveEvent returning early only when both addresses are empty.
resolveEventBothEmpty(d, event) ==
    IF event.localUid = EmptyStr /\ event.remoteUid = EmptyStr
    THEN d
    ELSE LET uidPair == foldedEventAddress(event.localUid, event.remoteUid)
         IN IF uidPair \in d.requestedAddresses
            THEN d
            ELSE [d EXCEPT !.requestedAddresses = @ \cup {uidPair},
                           !.calls = Append(@, ResolveCall(uidPair))]

\* Mutant: resolveEvent without the early return for an empty address.
resolveEventNoEmptyCheck(d, event) ==
    LET uidPair == foldedEventAddress(event.localUid, event.remoteUid)
    IN IF uidPair \in d.requestedAddresses
       THEN d
       ELSE [d EXCEPT !.requestedAddresses = @ \cup {uidPair},
                      !.calls = Append(@, ResolveCall(uidPair))]

\* Mutant: resolveEvent that forgets to insert the address it requests.
resolveEventNoInsert(d, event) ==
    IF event.localUid = EmptyStr \/ event.remoteUid = EmptyStr
    THEN d
    ELSE LET uidPair == foldedEventAddress(event.localUid, event.remoteUid)
         IN IF uidPair \in d.requestedAddresses
            THEN d
            ELSE [d EXCEPT !.calls = Append(@, ResolveCall(uidPair))]

\* Mutant: resolveEvent without the requestedAddresses.contains() test.
resolveEventNoDedup(d, event) ==
    IF event.localUid = EmptyStr \/ event.remoteUid = EmptyStr
    THEN d
    ELSE LET uidPair == foldedEventAddress(event.localUid, event.remoteUid)
         IN [d EXCEPT !.requestedAddresses = @ \cup {uidPair},
                      !.calls = Append(@, ResolveCall(uidPair))]

resolveEvent(d, event) ==
    IF event.localUid = EmptyStr \/ event.remoteUid = EmptyStr
    THEN d
    ELSE LET uidPair == foldedEventAddress(event.localUid, event.remoteUid)
         IN IF uidPair \in d.requestedAddresses
            THEN d
            ELSE [d EXCEPT !.requestedAddresses = @ \cup {uidPair},
                           !.calls = Append(@, ResolveCall(uidPair))]

\* Mutant: applyResolvedContacts asking the cache with the folded address
\* that was requested instead of the event's own addresses.
ResolvedContactsByKey(c, event) ==
    LET uidPair == foldedEventAddress(event.localUid, event.remoteUid)
        item == IF localUidComparesPhoneNumbers(event.localUid)
                THEN itemByPhoneNumber(c, uidPair.second)
                ELSE IF event.remoteUid = EmptyStr
                     THEN itemByEmailAddress(c, uidPair.first)
                     ELSE itemByOnlineAccount(c, uidPair.first, uidPair.second)
    IN IF item # {}
       THEN LET found == CHOOSE i \in item : TRUE IN << <<found.iid, found.label>> >>
       ELSE <<>>

\* The contacts list applyResolvedContacts gives one event.
ResolvedContacts(c, event) ==
    LET item == IF localUidComparesPhoneNumbers(event.localUid)
                THEN itemByPhoneNumber(c, event.remoteUid)
                ELSE IF event.remoteUid = EmptyStr
                     THEN itemByEmailAddress(c, event.localUid)
                     ELSE itemByOnlineAccount(c, event.localUid, event.remoteUid)
    IN IF item # {}
       THEN LET found == CHOOSE i \in item : TRUE IN << <<found.iid, found.label>> >>
       ELSE <<>>

applyResolvedContacts(evs, c) ==
    [i \in 1..Len(evs) |-> [evs[i] EXCEPT !.contacts = ResolvedContacts(c, evs[i])]]

EventsResolved(list) == [signal |-> "eventsResolved", events |-> list]
Finished == [signal |-> "finished", events |-> <<>>]

\* Mutant: checkIfResolved without the events.isEmpty() return.
checkIfResolvedNoEmptyCheck(d, c) ==
    IF d.resolvedAddresses < Cardinality(d.requestedAddresses)
    THEN d
    ELSE LET resolved == applyResolvedContacts(d.events, c)
         IN [d EXCEPT !.events = <<>>,
                      !.emitted = @ \o <<EventsResolved(resolved), Finished>>]

\* Mutant: checkIfResolved comparing the count with != instead of <.
checkIfResolvedNotEqual(d, c) ==
    IF d.events = <<>>
    THEN d
    ELSE IF d.resolvedAddresses # Cardinality(d.requestedAddresses)
         THEN d
         ELSE LET resolved == applyResolvedContacts(d.events, c)
              IN [d EXCEPT !.events = <<>>,
                           !.emitted = @ \o <<EventsResolved(resolved), Finished>>]

\* Mutant: checkIfResolved emitting finished before eventsResolved.
checkIfResolvedFinishedFirst(d, c) ==
    IF d.events = <<>>
    THEN d
    ELSE IF d.resolvedAddresses < Cardinality(d.requestedAddresses)
         THEN d
         ELSE LET resolved == applyResolvedContacts(d.events, c)
              IN [d EXCEPT !.events = <<>>,
                           !.emitted = @ \o <<Finished, EventsResolved(resolved)>>]

\* Mutant: checkIfResolved clearing the list before it is copied out.
checkIfResolvedClearFirst(d, c) ==
    IF d.events = <<>>
    THEN d
    ELSE IF d.resolvedAddresses < Cardinality(d.requestedAddresses)
         THEN d
         ELSE LET resolved == applyResolvedContacts(<<>>, c)
              IN [d EXCEPT !.events = <<>>,
                           !.emitted = @ \o <<EventsResolved(resolved), Finished>>]

\* Mutant: checkIfResolved forgetting the requested addresses at delivery.
checkIfResolvedReset(d, c) ==
    IF d.events = <<>>
    THEN d
    ELSE IF d.resolvedAddresses < Cardinality(d.requestedAddresses)
         THEN d
         ELSE LET resolved == applyResolvedContacts(d.events, c)
              IN [d EXCEPT !.events = <<>>,
                           !.requestedAddresses = {},
                           !.resolvedAddresses = 0,
                           !.emitted = @ \o <<EventsResolved(resolved), Finished>>]

\* Mutant: checkIfResolved without events.clear().
checkIfResolvedNoClear(d, c) ==
    IF d.events = <<>>
    THEN d
    ELSE IF d.resolvedAddresses < Cardinality(d.requestedAddresses)
         THEN d
         ELSE LET resolved == applyResolvedContacts(d.events, c)
              IN [d EXCEPT !.emitted = @ \o <<EventsResolved(resolved), Finished>>]

\* Mutant: checkIfResolved that stops waiting one callback early.
checkIfResolvedEarly(d, c) ==
    IF d.events = <<>>
    THEN d
    ELSE IF d.resolvedAddresses + 1 < Cardinality(d.requestedAddresses)
         THEN d
         ELSE LET resolved == applyResolvedContacts(d.events, c)
              IN [d EXCEPT !.events = <<>>,
                           !.emitted = @ \o <<EventsResolved(resolved), Finished>>]

checkIfResolved(d, c) ==
    IF d.events = <<>>
    THEN d
    ELSE IF d.resolvedAddresses < Cardinality(d.requestedAddresses)
         THEN d
         ELSE LET resolved == applyResolvedContacts(d.events, c)
              IN [d EXCEPT !.events = <<>>,
                           !.emitted = @ \o <<EventsResolved(resolved), Finished>>]

RECURSIVE AppendLoopAssign(_, _)
\* Mutant: the foreach of appendEvents assigning the event to the list
\* instead of appending it.
AppendLoopAssign(d, batch) ==
    IF batch = <<>> THEN d
    ELSE LET r == resolveEvent(d, Head(batch))
         IN AppendLoopAssign([r EXCEPT !.events = <<Head(batch)>>], Tail(batch))

RECURSIVE AppendLoopDropEmpty(_, _)
\* Mutant: the foreach of appendEvents storing only the events it may request.
AppendLoopDropEmpty(d, batch) ==
    IF batch = <<>> THEN d
    ELSE LET e == Head(batch)
             r == resolveEvent(d, e)
         IN IF e.localUid = EmptyStr \/ e.remoteUid = EmptyStr
            THEN AppendLoopDropEmpty(r, Tail(batch))
            ELSE AppendLoopDropEmpty([r EXCEPT !.events = Append(@, e)], Tail(batch))

RECURSIVE AppendLoopFront(_, _)
\* Mutant: the foreach of appendEvents inserting at the front of the list.
AppendLoopFront(d, batch) ==
    IF batch = <<>> THEN d
    ELSE LET r == resolveEvent(d, Head(batch))
         IN AppendLoopFront([r EXCEPT !.events = <<Head(batch)>> \o @], Tail(batch))

RECURSIVE AppendLoop(_, _)
\* The foreach of appendEvents.
AppendLoop(d, batch) ==
    IF batch = <<>> THEN d
    ELSE LET r == resolveEvent(d, Head(batch))
         IN AppendLoop([r EXCEPT !.events = Append(@, Head(batch))], Tail(batch))

RECURSIVE PrependLoop(_, _)
\* The foreach of prependEvents.
PrependLoop(d, batch) ==
    IF batch = <<>> THEN d
    ELSE LET r == resolveEvent(d, Head(batch))
         IN PrependLoop([r EXCEPT !.events = <<Head(batch)>> \o @], Tail(batch))

\* ContactResolver::isResolving
isResolving == events # <<>>

\* ContactResolver::events
eventsSnapshot == applyResolvedContacts(events, cache)

\* ------------------------------------------------------------------ actions

\* The batches a caller may hand over: up to MaxBatch new events with
\* addresses from pool, as long as the run stays within max events.
Batches(pool, max) ==
    LET room == max - Len(added)
        most == IF room < MaxBatch THEN room ELSE MaxBatch
    IN UNION { [1..n -> pool] : n \in 0..most }

NewEvents(uids) == [i \in 1..Len(uids) |-> Event(Len(added) + i, uids[i])]

BatchIds(batch) == [i \in 1..Len(batch) |-> batch[i].id]

\* What a handler leaves behind: the private fields, the requests handed to
\* the cache and the signals emitted.
Commit(d) ==
    /\ events' = d.events
    /\ requestedAddresses' = d.requestedAddresses
    /\ resolvedAddresses' = d.resolvedAddresses
    /\ issued' = issued \o d.calls
    /\ signalLog' = signalLog \o d.emitted
    /\ peeks' = 0
    /\ returned' = <<>>

\* The record of the call kept for the session: op is the operation, ids the
\* ids of the batch in the order given.
Record(op, batch) ==
    /\ added' = added \o batch
    /\ sessionOps' = IF batch = <<>> THEN sessionOps
                     ELSE IF events = <<>> THEN << [op |-> op, ids |-> BatchIds(batch)] >>
                     ELSE Append(sessionOps, [op |-> op, ids |-> BatchIds(batch)])
    /\ sessionCount' = IF batch # <<>> /\ events = <<>> THEN sessionCount + 1 ELSE sessionCount

appendEvents(batch) ==
    LET d == checkIfResolved(AppendLoop(Private, batch), cache)
    IN /\ resolveTimer' = (resolveTimer \/ events = <<>>)
       /\ Commit(d)
       /\ pending' = pending \o d.calls
       /\ Record("append", batch)
       /\ UNCHANGED <<cache, spurious>>

prependEvents(batch) ==
    LET d == checkIfResolved(PrependLoop(Private, batch), cache)
    IN /\ resolveTimer' = (resolveTimer \/ events = <<>>)
       /\ Commit(d)
       /\ pending' = pending \o d.calls
       /\ Record("prepend", batch)
       /\ UNCHANGED <<cache, spurious>>

AppendEvents ==
    \E uids \in Batches(UidPool, MaxEvents) : appendEvents(NewEvents(uids))

PrependEvents ==
    \E uids \in Batches(UidPool, MaxEvents) : prependEvents(NewEvents(uids))

RemoveAt(s, i) == SubSeq(s, 1, i - 1) \o SubSeq(s, i + 1, Len(s))

\* Mutant: addressResolved that counts the callback but does not check.
addressResolvedNoCheck ==
    /\ Commit([Private EXCEPT !.resolvedAddresses = @ + 1])
    /\ UNCHANGED <<resolveTimer, cache, added, sessionOps, sessionCount>>

addressResolved ==
    LET d == checkIfResolved([Private EXCEPT !.resolvedAddresses = @ + 1], cache)
    IN /\ Commit(d)
       /\ UNCHANGED <<resolveTimer, cache, added, sessionOps, sessionCount>>

\* Mutant: a listener that takes the callback for the request made last as
\* the end of the resolution, and only counts the others.
ResolveListenerInOrder(first, second) ==
    IF UidPair(first, second) = UidPair(issued[Len(issued)].first, issued[Len(issued)].second)
    THEN addressResolved
    ELSE addressResolvedNoCheck

\* The ResolveListener callback: addressResolved ignores the address it is
\* called for.
ResolveListener(first, second) == addressResolved

\* The cache completes one of the outstanding requests, in any order.
AddressResolved ==
    \E i \in 1..Len(pending) :
        /\ pending' = RemoveAt(pending, i)
        /\ ResolveListener(pending[i].first, pending[i].second)
        /\ UNCHANGED spurious

Init ==
    /\ events = <<>>
    /\ requestedAddresses = {}
    /\ resolvedAddresses = 0
    /\ resolveTimer = FALSE
    /\ cache = KnownContacts
    /\ pending = <<>>
    /\ issued = <<>>
    /\ signalLog = <<>>
    /\ added = <<>>
    /\ sessionOps = <<>>
    /\ sessionCount = 0
    /\ peeks = 0
    /\ returned = <<>>
    /\ spurious = 0

Next ==
    \/ AppendEvents
    \/ PrependEvents
    \/ AddressResolved

Spec == Init /\ [][Next]_vars

\* The same resolver driven with the small address pool, for longer sessions.
OrderAppendEvents ==
    \E uids \in Batches(OrderPool, MaxOrderEvents) : appendEvents(NewEvents(uids))

OrderPrependEvents ==
    \E uids \in Batches(OrderPool, MaxOrderEvents) : prependEvents(NewEvents(uids))

NextOrder ==
    \/ OrderAppendEvents
    \/ OrderPrependEvents
    \/ AddressResolved

SpecOrder == Init /\ [][NextOrder]_vars

LiveAppendEvents ==
    \E uids \in Batches(OrderPool, MaxLiveEvents) : appendEvents(NewEvents(uids))

LivePrependEvents ==
    \E uids \in Batches(OrderPool, MaxLiveEvents) : prependEvents(NewEvents(uids))

NextLive ==
    \/ LiveAppendEvents
    \/ LivePrependEvents
    \/ AddressResolved

\* The cache answers every request it was handed: an outstanding request
\* does not wait for ever.
SpecLive == Init /\ [][NextLive]_vars /\ WF_vars(AddressResolved)

\* ------------------------------------------------- further operations

\* events() calls in a row.
MaxPeeks == 2

\* Mutant: events() that hands the list over and forgets it.
eventsTake ==
    /\ peeks' = peeks + 1
    /\ returned' = applyResolvedContacts(events, cache)
    /\ events' = <<>>
    /\ UNCHANGED <<requestedAddresses, resolvedAddresses, resolveTimer, cache, pending,
                   issued, signalLog, added, sessionOps, sessionCount, spurious>>

\* ContactResolver::events, called: a const method returning
\* applyResolvedContacts().
eventsCall ==
    /\ peeks' = peeks + 1
    /\ returned' = applyResolvedContacts(events, cache)
    /\ UNCHANGED <<events, requestedAddresses, resolvedAddresses, resolveTimer, cache,
                   pending, issued, signalLog, added, sessionOps, sessionCount, spurious>>

EventsCall ==
    /\ peeks < MaxPeeks
    /\ eventsCall

NextPeek ==
    \/ LiveAppendEvents
    \/ LivePrependEvents
    \/ AddressResolved
    \/ EventsCall

\* The resolver with a caller that also looks at events().
SpecPeek == Init /\ [][NextPeek]_vars

\* Callbacks without a request over one run.
MaxSpurious == 1

\* The cache breaks the protocol: it calls addressResolved for an address
\* nobody asked it to resolve.
SpuriousCallback ==
    /\ spurious < MaxSpurious
    /\ spurious' = spurious + 1
    /\ \E u \in OrderPool : ResolveListener(u.localUid, u.remoteUid)
    /\ UNCHANGED pending

NextFaulty ==
    \/ LiveAppendEvents
    \/ LivePrependEvents
    \/ AddressResolved
    \/ SpuriousCallback

\* The resolver with a cache that may call back once too often.
SpecFaulty == Init /\ [][NextFaulty]_vars

\* Events added over one run of the specification with a changing cache.
MaxCacheEvents == 3

\* Address pairs that fold to one key two by two, each known to the cache
\* under its own raw form.
PrecisionPool ==
    { Uid(RingAccount, PhoneFull),
      Uid(RingAccount, PhoneShort),
      Uid(Acct1, Acct1Contact),
      Uid(Acct1Upper, Acct1Contact) }

\* Contents the cache may have: all contacts, none, or only the contacts
\* stored under the short phone number and the lower-case account.
CachePool ==
    { KnownContacts,
      {},
      { Contact(2, "Bea", "phone", EmptyStr, PhoneShort),
        Contact(3, "Cy", "account", Acct1, Acct1Contact) } }

\* The contacts of the cache change while the resolver is at work.
ContactsChanged ==
    /\ cache' \in CachePool \ {cache}
    /\ UNCHANGED <<events, requestedAddresses, resolvedAddresses, resolveTimer, pending,
                   issued, signalLog, added, sessionOps, sessionCount, peeks, returned,
                   spurious>>

CacheAppendEvents ==
    \E uids \in Batches(PrecisionPool, MaxCacheEvents) : appendEvents(NewEvents(uids))

CachePrependEvents ==
    \E uids \in Batches(PrecisionPool, MaxCacheEvents) : prependEvents(NewEvents(uids))

NextCache ==
    \/ CacheAppendEvents
    \/ CachePrependEvents
    \/ AddressResolved
    \/ ContactsChanged

\* The resolver with a cache whose contacts change.
SpecCache == Init /\ [][NextCache]_vars

\* -------------------------------------------------------------- properties

\* The lists carried by the eventsResolved emissions so far, in order.
Delivered ==
    LET IsResolved(s) == s.signal = "eventsResolved"
        hits == SelectSeq(signalLog, IsResolved)
    IN [i \in 1..Len(hits) |-> hits[i].events]

Ids(list) == [i \in 1..Len(list) |-> list[i].id]

\* An event list without the contacts the resolver filled in.
Raw(list) == [i \in 1..Len(list) |-> [list[i] EXCEPT !.contacts = <<>>]]

\* Whether an event is one resolveEvent may request: both addresses set.
Requestable(e) == e.localUid # EmptyStr /\ e.remoteUid # EmptyStr

RequestKey(e) == foldedEventAddress(e.localUid, e.remoteUid)

\* The event list the session held at the end of the last step, before any
\* delivery of that step emptied it.
Held ==
    IF events # <<>> THEN events
    ELSE IF Delivered # <<>> THEN Raw(Delivered[Len(Delivered)])
    ELSE <<>>

\* C1. Completion exactness. With one callback per issued request, a step
\* emits eventsResolved/finished if and only if the event list of that step
\* is non-empty and as many callbacks were received as requests were issued.
\* It never emits while a request is outstanding, and no step ends with a
\* non-empty event list and every request completed.
C1_CompletionExactness ==
    [][ LET emits == signalLog' # signalLog
            requestsIssued == Len(issued')
            callbacksReceived == Len(issued') - Len(pending')
            listOfStep == IF emits THEN signalLog'[Len(signalLog') - 1].events
                          ELSE events'
        IN /\ emits <=> (listOfStep # <<>> /\ callbacksReceived = requestsIssued)
           /\ emits => pending' = <<>>
           /\ (events' # <<>> => pending' # <<>>)
           /\ resolvedAddresses' = callbacksReceived
      ]_vars

\* C1 witness: a list was delivered only after two requests had completed.
C1_Witness ==
    /\ Len(issued) >= 2
    /\ pending = <<>>
    /\ resolvedAddresses = 2
    /\ Len(signalLog) = 2
    /\ events = <<>>

\* The request keys of the requestable events added so far.
AddedKeys == { RequestKey(added[i]) : i \in {j \in 1..Len(added) : Requestable(added[j])} }

\* C2. Dedup. The requests issued are as many as the distinct request keys
\* among the added events with both addresses non-empty, one per key.
C2_Dedup ==
    /\ Len(issued) = Cardinality(AddedKeys)
    /\ { UidPair(issued[i].first, issued[i].second) : i \in 1..Len(issued) } = AddedKeys
    /\ requestedAddresses = AddedKeys

\* C2 witness: one session of two batches, three requestable events that
\* fold to one key, two of them with different raw addresses, one request.
C2_Witness ==
    /\ Len(sessionOps) = 2
    /\ events # <<>>
    /\ Len(added) = 3
    /\ \A i \in 1..3 : Requestable(added[i])
    /\ added[1].remoteUid # added[2].remoteUid
    /\ Len(issued) = 1

RECURSIVE ExpectedOrder(_)
\* The order of ids a session's calls ask for: an appended batch goes behind
\* the list, a prepended batch goes in front of it, each batch in its own order.
ExpectedOrder(ops) ==
    IF ops = <<>> THEN <<>>
    ELSE LET rest == ExpectedOrder(SubSeq(ops, 1, Len(ops) - 1))
             last == ops[Len(ops)]
         IN IF last.op = "append" THEN rest \o last.ids ELSE last.ids \o rest

\* C3. Prepend order. prependEvents puts the batch in front of the event list
\* and keeps the order of the events within the batch, so that prepending
\* [C,D] after appending [A,B] gives [C,D,A,B]: the list held (and delivered)
\* is the one the session's calls ask for.
C3_PrependOrder ==
    Ids(Held) = ExpectedOrder(sessionOps)

\* What prependEvents does: each event of the batch is put in front of the
\* list in turn, so the batch ends up reversed.
RECURSIVE Reverse(_)
Reverse(s) == IF s = <<>> THEN <<>> ELSE Append(Reverse(Tail(s)), Head(s))

RECURSIVE CodeOrder(_)
CodeOrder(ops) ==
    IF ops = <<>> THEN <<>>
    ELSE LET rest == CodeOrder(SubSeq(ops, 1, Len(ops) - 1))
             last == ops[Len(ops)]
         IN IF last.op = "append" THEN rest \o last.ids ELSE Reverse(last.ids) \o rest

\* The order the code gives: as asked for, but with prepended batches reversed.
PrependReversesBatch ==
    Ids(Held) = CodeOrder(sessionOps)

\* C4. Append order. The list of a session that only used appendEvents is
\* the concatenation of the appended batches in call order, whatever the
\* order of the callbacks: appending [A,B] and then [C,D] gives [A,B,C,D].
C4_AppendOrder ==
    (\A k \in 1..Len(sessionOps) : sessionOps[k].op = "append")
        => LET order == ExpectedOrder(sessionOps)
           IN Held = [i \in 1..Len(order) |-> added[order[i]]]

\* C4 witness: [1,2] and then [3,4] were appended in one session, two
\* requests were answered, and the list was delivered.
C4_Witness ==
    /\ sessionOps = << [op |-> "append", ids |-> <<1, 2>>],
                       [op |-> "append", ids |-> <<3, 4>>] >>
    /\ Len(issued) = 2
    /\ pending = <<>>
    /\ events = <<>>
    /\ Len(Delivered) = 1
    /\ Ids(Delivered[1]) = <<1, 2, 3, 4>>

\* The end-to-end scenario: on a new resolver, one appendEvents call with an
\* event with local "" and remote "+1-555-0100" and an event with local
\* "acct1" and remote "acct1-contact".
InScenario ==
    /\ added = << Event(1, Uid(EmptyStr, PhoneFull)), Event(2, Uid(Acct1, Acct1Contact)) >>
    /\ sessionOps = << [op |-> "append", ids |-> <<1, 2>>] >>

\* The scenario's delivery: eventsResolved with the two events in their
\* original order, each with one contact or none, followed by finished.
ScenarioDelivered ==
    /\ Len(signalLog) = 2
    /\ signalLog[1].signal = "eventsResolved"
    /\ Raw(signalLog[1].events) = added
    /\ \A i \in 1..Len(signalLog[1].events) : Len(signalLog[1].events[i].contacts) <= 1
    /\ signalLog[2] = Finished
    /\ events = <<>>

\* C5 as stated. The scenario issues exactly 2 requests, one phone request
\* and one account-pair request; after both callbacks, eventsResolved carries
\* the 2 events in their original order and is followed by finished.
C5_ScenarioTwoRequests ==
    InScenario =>
        /\ Len(issued) = 2
        /\ \E i \in 1..Len(issued) : issued[i].kind = "phone"
        /\ \E i \in 1..Len(issued) : issued[i].kind = "account"
        /\ (pending # <<>> => signalLog = <<>>)
        /\ (pending = <<>> => ScenarioDelivered)

\* C5 as amended. The scenario issues exactly 1 request, the account-pair
\* request for ("acct1", "acct1-contact"); the event with the empty local
\* address issues none. Until that request's callback nothing is emitted;
\* after it, eventsResolved carries the 2 events in their original order and
\* is followed by finished.
C5_ScenarioOneRequest ==
    InScenario =>
        /\ issued = << Request("account", Acct1, Acct1Contact) >>
        /\ (pending # <<>> => signalLog = <<>> /\ Ids(events) = <<1, 2>>)
        /\ (pending = <<>> => ScenarioDelivered)

\* C5 witness: the scenario ran to its delivery.
C5_Witness ==
    /\ InScenario
    /\ pending = <<>>
    /\ resolvedAddresses = 1
    /\ Len(signalLog) = 2

\* C6. Two-part completion signal. Per session (from the first event added
\* while idle until delivery) eventsResolved and finished each fire exactly
\* once, eventsResolved first and finished right after it, nothing between.
C6_TwoPartSignal ==
    LET ended == IF events # <<>> THEN sessionCount - 1 ELSE sessionCount
    IN /\ Len(signalLog) = 2 * ended
       /\ \A i \in 1..Len(signalLog) :
              signalLog[i].signal = (IF i % 2 = 1 THEN "eventsResolved" ELSE "finished")

\* C6 witness: two sessions ended, the second after a callback.
C6_Witness ==
    /\ sessionCount = 2
    /\ events = <<>>
    /\ resolvedAddresses >= 1
    /\ Len(signalLog) = 4

\* How often the event with this id occurs in the event list and in the
\* delivered lists together.
Occurrences(id) ==
    Cardinality({k \in 1..Len(events) : events[k].id = id})
    + Cardinality({p \in {<<k, i>> : k \in 1..Len(Delivered), i \in 1..Len(added)} :
                      p[2] <= Len(Delivered[p[1]]) /\ Delivered[p[1]][p[2]].id = id})

\* C7. Events with an empty address. An event whose local or remote address
\* is empty triggers no request and adds no key: the requests and keys of a
\* call come from its other events. The event is stored all the same, by
\* appendEvents at its place behind the list and by prependEvents within the
\* batch in front of it, and is held or delivered exactly once.
C7_EmptyAddressEvents ==
    [][ LET batch == SubSeq(added', Len(added) + 1, Len(added'))
            newCalls == SubSeq(issued', Len(issued) + 1, Len(issued'))
            newKeys == requestedAddresses' \ requestedAddresses
            requestable == {i \in 1..Len(batch) : Requestable(batch[i])}
            list == IF signalLog' # signalLog
                    THEN Raw(signalLog'[Len(signalLog') - 1].events)
                    ELSE events'
        IN /\ newKeys \subseteq {RequestKey(batch[i]) : i \in requestable}
           /\ \A k \in 1..Len(newCalls) :
                  UidPair(newCalls[k].first, newCalls[k].second) \in newKeys
           /\ Len(newCalls) = Cardinality(newKeys)
           /\ \A i \in (1..Len(batch)) \ requestable :
                  /\ Len(list) = Len(events) + Len(batch)
                  /\ IF sessionOps'[Len(sessionOps')].op = "append"
                     THEN list[Len(events) + i] = batch[i]
                     ELSE \E k \in 1..Len(batch) : list[k] = batch[i]
           /\ \A j \in 1..Len(added') : ~Requestable(added'[j]) => Occurrences(j)' = 1
      ]_vars

\* C7 witness: a delivered list holds an event with both addresses empty
\* after an event that was requested.
C7_Witness ==
    \E k \in 1..Len(Delivered) :
        /\ Len(Delivered[k]) >= 2
        /\ Requestable(Delivered[k][1])
        /\ Delivered[k][2].localUid = EmptyStr
        /\ Delivered[k][2].remoteUid = EmptyStr
        /\ Len(issued) = 1

\* C8. Counter invariant. With one callback per issued request the count of
\* completed requests never exceeds the size of the requested-address set.
C8_CounterInvariant ==
    resolvedAddresses <= Cardinality(requestedAddresses)

\* C8 witness: a second session waits for its request while the count still
\* holds the callback of the first.
C8_Witness ==
    /\ sessionCount = 2
    /\ resolvedAddresses = 1
    /\ Cardinality(requestedAddresses) = 2
    /\ events # <<>>

\* Whether the event with this id is in a delivered list.
WasDelivered(id) ==
    \E k \in 1..Len(Delivered) : \E i \in 1..Len(Delivered[k]) : Delivered[k][i].id = id

\* C9. Liveness and no timeout. If every issued request gets its callback,
\* every session finishes: isResolving becomes false again and every added
\* event is delivered. And while a callback is missing nothing is delivered,
\* whatever else is done.
C9_Liveness ==
    /\ isResolving ~> (~isResolving /\ \A id \in 1..Len(added) : WasDelivered(id))
    /\ [][pending' # <<>> => signalLog' = signalLog]_vars

\* C9 witness: a session of three events and two requests was delivered.
C9_Witness ==
    /\ Len(added) >= 3
    /\ Len(issued) = 2
    /\ sessionCount = 1
    /\ ~isResolving
    /\ \A id \in 1..Len(added) : WasDelivered(id)

\* C10. Resolving state. isResolving is true exactly when the event list is
\* non-empty, and every emission empties the event list in the same step:
\* right after a delivery isResolving is false and events() returns nothing.
C10_ResolvingState ==
    [][ /\ isResolving' <=> (Len(events') > 0)
        /\ signalLog' # signalLog =>
               (events' = <<>> /\ ~isResolving' /\ eventsSnapshot' = <<>>)
      ]_vars

\* C10 witness: the state right after a delivery.
C10_Witness ==
    /\ Len(signalLog) = 2
    /\ resolvedAddresses = 1
    /\ ~isResolving
    /\ eventsSnapshot = <<>>

\* C11. Idempotent peek. events() changes no state of the resolver (event
\* list, requested addresses, completed count), emits no signal and does not
\* end the session; a second call right after a first returns the same list,
\* also while requests are outstanding.
C11_IdempotentPeek ==
    [][ peeks' > peeks =>
            /\ UNCHANGED <<events, requestedAddresses, resolvedAddresses, signalLog,
                           pending, issued>>
            /\ isResolving' = isResolving
            /\ Raw(returned') = events
            /\ (peeks > 0 => returned' = returned)
      ]_vars

\* C11 witness: events() was called twice in a row while a request was
\* outstanding and returned a list with a contact in it.
C11_Witness ==
    /\ peeks = 2
    /\ pending # <<>>
    /\ isResolving
    /\ \E i \in 1..Len(returned) : returned[i].contacts # <<>>

\* C12. Spurious callback cannot retrigger delivery. A callback that arrives
\* when the event list is empty only increments the completed count: it emits
\* neither signal and changes nothing else, and no list is delivered a second
\* time (no delivered list is empty, no event is in two of them).
C12_SpuriousCallback ==
    [][ /\ (resolvedAddresses' # resolvedAddresses /\ events = <<>>) =>
               /\ resolvedAddresses' = resolvedAddresses + 1
               /\ signalLog' = signalLog
               /\ UNCHANGED <<events, requestedAddresses, issued>>
        /\ \A k \in 1..Len(Delivered') :
               /\ Delivered'[k] # <<>>
               /\ \A m \in 1..Len(Delivered') :
                      m # k => \A i \in 1..Len(Delivered'[k]) : \A j \in 1..Len(Delivered'[m]) :
                                   Delivered'[k][i].id # Delivered'[m][j].id
      ]_vars

\* C12 witness: a session with a request was delivered once, and the count
\* is one callback ahead of the requests.
C12_Witness ==
    /\ spurious = 1
    /\ Len(issued) >= 1
    /\ pending = <<>>
    /\ resolvedAddresses = Cardinality(requestedAddresses) + 1
    /\ events = <<>>
    /\ Len(signalLog) = 2

\* C17. Protocol violation degrades to early finish. The completed count is
\* only ever incremented, so a callback without a request leaves it one too
\* high for good; a session is then delivered with at most that many of its
\* requests unanswered, and is never left waiting once its requests have
\* been answered.
C17_EarlyFinish ==
    [][ /\ resolvedAddresses' \in {resolvedAddresses, resolvedAddresses + 1}
        /\ resolvedAddresses' = Len(issued') - Len(pending') + spurious'
        /\ (signalLog' # signalLog => Len(pending') <= spurious')
        /\ (events' # <<>> => Len(pending') > spurious')
      ]_vars

\* C17 witness: with one callback without a request, a first session of one
\* request was delivered, and the second session made a new request and was
\* delivered while that request was still unanswered.
C17_Witness ==
    /\ spurious = 1
    /\ sessionCount = 2
    /\ Len(Delivered) = 2
    /\ events = <<>>
    /\ Len(issued) = 2
    /\ pending = << issued[2] >>
    /\ Len(Delivered[1]) = 1
    /\ Requestable(Delivered[1][1])
    /\ RequestKey(Delivered[1][1]) = UidPair(issued[1].first, issued[1].second)
    /\ Len(Delivered[2]) = 1
    /\ Requestable(Delivered[2][1])
    /\ RequestKey(Delivered[2][1]) = UidPair(issued[2].first, issued[2].second)

\* The contacts of the cache stored under exactly the raw addresses of an
\* event: under its remote address as a phone number for a phone account,
\* under its local address as an email address when it has no remote address,
\* and under the pair of its addresses otherwise.
RawMatches(c, e) ==
    { k \in c :
        IF localUidComparesPhoneNumbers(e.localUid)
        THEN k.kind = "phone" /\ k.second = e.remoteUid
        ELSE IF e.remoteUid = EmptyStr
             THEN k.kind = "email" /\ k.first = e.localUid
             ELSE k.kind = "account" /\ k.first = e.localUid /\ k.second = e.remoteUid }

\* C13. Precision over normalization. Each delivered event carries the
\* contact the cache holds, at delivery, for the event's own raw addresses
\* (none if it holds none). Two events of a list that fold to one request key
\* but match different contacts by their raw addresses get different contacts.
C13_Precision ==
    [][ signalLog' # signalLog =>
            LET list == signalLog'[Len(signalLog') - 1].events
            IN /\ \A i \in 1..Len(list) :
                      list[i].contacts =
                          (IF RawMatches(cache, list[i]) = {} THEN <<>>
                           ELSE LET k == CHOOSE k \in RawMatches(cache, list[i]) : TRUE
                                IN << <<k.iid, k.label>> >>)
               /\ \A i, j \in 1..Len(list) :
                      ( /\ RequestKey(list[i]) = RequestKey(list[j])
                        /\ RawMatches(cache, list[i]) # {}
                        /\ RawMatches(cache, list[j]) # {}
                        /\ RawMatches(cache, list[i]) # RawMatches(cache, list[j]) )
                      => list[i].contacts # list[j].contacts
      ]_vars

\* C13 witness: one request served two events of a delivered list that
\* differ in their raw phone numbers, and each got its own contact.
C13_Witness ==
    /\ Len(issued) = 1
    /\ Len(Delivered) = 1
    /\ Len(Delivered[1]) = 2
    /\ Delivered[1][1].contacts = << <<1, "Ann">> >>
    /\ Delivered[1][2].contacts = << <<2, "Bea">> >>

\* C14. Callback order independence. What a callback does depends on how
\* many callbacks have been received, not on which request it answers: it
\* delivers exactly when it is the last one outstanding, and the list it
\* delivers is the one the calls built, in their order, with every event as
\* it was added.
C14_CallbackOrder ==
    [][ resolvedAddresses' # resolvedAddresses =>
            LET deliver == events # <<>> /\ Len(pending) = 1
                list == signalLog'[Len(signalLog') - 1].events
            IN /\ resolvedAddresses' = Len(issued) - Len(pending) + 1
               /\ requestedAddresses' = requestedAddresses
               /\ (signalLog' # signalLog) <=> deliver
               /\ ~deliver => events' = events
               /\ deliver =>
                      /\ Len(signalLog') = Len(signalLog) + 2
                      /\ events' = <<>>
                      /\ Raw(list) = events
                      /\ Ids(list) = CodeOrder(sessionOps)
                      /\ \A i \in 1..Len(list) : Raw(list)[i] = added[list[i].id]
      ]_vars

\* C14 witness: of two requests the one made last was answered first, and
\* the session is still waiting for the other.
C14_Witness ==
    /\ Len(issued) = 2
    /\ issued[1] # issued[2]
    /\ pending = << issued[1] >>
    /\ resolvedAddresses = 1
    /\ isResolving

\* The ids of all the batches of the session.
SessionIds == UNION { {sessionOps[k].ids[i] : i \in 1..Len(sessionOps[k].ids)} : k \in 1..Len(sessionOps) }

\* C15. Incremental adds join the running session. Events added while a
\* request is outstanding start no new session and trigger no delivery: they
\* are held together with the earlier events. The one eventsResolved of the
\* session carries the events of all its batches and fires only when no
\* request, of the earlier or of the added events, is outstanding.
C15_IncrementalAdds ==
    [][ /\ (added' # added /\ pending # <<>>) =>
               /\ signalLog' = signalLog
               /\ sessionCount' = sessionCount
               /\ Len(events') = Len(events) + (Len(added') - Len(added))
               /\ {events'[i].id : i \in 1..Len(events')}
                      = {events[i].id : i \in 1..Len(events)} \cup (Len(added) + 1..Len(added'))
        /\ signalLog' # signalLog =>
               LET list == signalLog'[Len(signalLog') - 1].events
               IN /\ pending' = <<>>
                  /\ Len(signalLog') = Len(signalLog) + 2
                  /\ {list[i].id : i \in 1..Len(list)} = SessionIds'
                  /\ Len(list) = Cardinality(SessionIds')
      ]_vars

\* C15 witness: one session of two batches with a request each, delivered in
\* a single emission after both requests were answered.
C15_Witness ==
    /\ sessionCount = 1
    /\ Len(sessionOps) = 2
    /\ Len(issued) = 2
    /\ \A k \in 1..2 : \E i \in 1..Len(sessionOps[k].ids) :
           /\ Requestable(added[sessionOps[k].ids[i]])
           /\ RequestKey(added[sessionOps[k].ids[i]]) = UidPair(issued[k].first, issued[k].second)
    /\ pending = <<>>
    /\ Len(Delivered) = 1
    /\ Len(Delivered[1]) = Len(added)

\* C16. Request variant selection. The request made for an event's folded
\* address is the phone number variant when the local part of the folded
\* address is empty, the email variant when its remote part is empty, and the
\* account pair variant otherwise.
C16_RequestVariant ==
    \A i \in 1..Len(added) :
        Requestable(added[i]) =>
            LET key == RequestKey(added[i])
                variant == IF key.first = EmptyStr THEN "phone"
                           ELSE IF key.second = EmptyStr THEN "email"
                           ELSE "account"
                made == {r \in 1..Len(issued) :
                            UidPair(issued[r].first, issued[r].second) = key}
            IN /\ Cardinality(made) = 1
               /\ \A r \in made : issued[r].kind = variant

\* C16 witness: a phone number request and an account pair request were made.
C16_Witness ==
    /\ \E r \in 1..Len(issued) : issued[r].kind = "phone"
    /\ \E r \in 1..Len(issued) : issued[r].kind = "account"

\* C20. Unreachable email request. Every requested address has a non-empty
\* remote part, so no email request is ever made; and a phone request is made
\* only for events whose non-empty local address is a phone account.
C20_NoEmailRequest ==
    /\ \A key \in requestedAddresses : key.second # EmptyStr
    /\ \A r \in 1..Len(issued) :
           /\ issued[r].kind # "email"
           /\ issued[r].second # EmptyStr
           /\ issued[r].kind = "phone" =>
                  LET for == {i \in 1..Len(added) :
                                 /\ Requestable(added[i])
                                 /\ RequestKey(added[i])
                                        = UidPair(issued[r].first, issued[r].second)}
                  IN /\ for # {}
                     /\ \A i \in for : /\ added[i].localUid # EmptyStr
                                       /\ localUidComparesPhoneNumbers(added[i].localUid)

\* C20 witness: an event with a local address and no remote address, and an
\* event with no local address and a phone number, were added and delivered,
\* and a phone request was made for a third.
C20_Witness ==
    /\ \E i \in 1..Len(added) :
           added[i].localUid # EmptyStr /\ added[i].remoteUid = EmptyStr
    /\ \E i \in 1..Len(added) :
           added[i].localUid = EmptyStr /\ added[i].remoteUid # EmptyStr
    /\ Len(issued) = 1
    /\ issued[1].kind = "phone"
    /\ events = <<>>
    /\ Len(signalLog) >= 2

\* The positions <<k, i>> of the delivered lists.
DeliveredPositions ==
    UNION { {<<k, i>> : i \in 1..Len(Delivered[k])} : k \in 1..Len(Delivered) }

\* C18. Exactly-once delivery. Whatever the interleaving of appendEvents,
\* prependEvents and callbacks, every added event is either once in the event
\* list or once in exactly one delivered list, unchanged but for its contacts;
\* nothing else is in those lists; and the event list holds exactly the added
\* events not delivered yet.
C18_ExactlyOnce ==
    /\ \A id \in 1..Len(added) :
           Cardinality({k \in 1..Len(events) : events[k].id = id})
           + Cardinality({p \in DeliveredPositions : Delivered[p[1]][p[2]].id = id}) = 1
    /\ Len(events) + Cardinality(DeliveredPositions) = Len(added)
    /\ \A k \in 1..Len(events) : events[k] = added[events[k].id]
    /\ \A p \in DeliveredPositions :
           LET e == Delivered[p[1]][p[2]]
           IN [e EXCEPT !.contacts = <<>>] = added[e.id]
    /\ {events[k].id : k \in 1..Len(events)}
           = {id \in 1..Len(added) : ~WasDelivered(id)}

\* C18 witness: three events were added, the first two were delivered in one
\* list after a prependEvents and a callback, and the third is waiting for
\* its own callback.
C18_Witness ==
    /\ Len(added) = 3
    /\ Len(Delivered) = 1
    /\ Ids(Delivered[1]) = <<2, 1>>
    /\ Ids(events) = <<3>>
    /\ resolvedAddresses >= 1
    /\ pending # <<>>

\* C19. Requested keys persist. No step removes a requested address or lowers
\* the count of callbacks, delivery and the start of a new session included;
\* a request is only ever made for an address not requested before; and a
\* batch added while nothing is outstanding that needs no new request is
\* delivered within the same call.
C19_KeysPersist ==
    [][ /\ requestedAddresses \subseteq requestedAddresses'
        /\ resolvedAddresses' >= resolvedAddresses
        /\ Len(issued') >= Len(issued)
        /\ \A r \in Len(issued) + 1..Len(issued') :
               /\ UidPair(issued'[r].first, issued'[r].second) \notin requestedAddresses
               /\ \A q \in 1..r - 1 :
                      UidPair(issued'[q].first, issued'[q].second)
                          # UidPair(issued'[r].first, issued'[r].second)
        /\ (added' # added /\ pending = <<>> /\ issued' = issued) =>
               /\ events' = <<>>
               /\ Len(signalLog') = Len(signalLog) + 2
               /\ LET list == signalLog'[Len(signalLog') - 1].events
                  IN {list[i].id : i \in 1..Len(list)}
                         = {events[i].id : i \in 1..Len(events)}
                               \cup (Len(added) + 1..Len(added'))
      ]_vars

\* C19 witness: two lists were delivered, each with an event of the same
\* requested address, and only one request was ever made.
C19_Witness ==
    /\ Len(Delivered) = 2
    /\ Len(issued) = 1
    /\ resolvedAddresses = 1
    /\ requestedAddresses = {UidPair(issued[1].first, issued[1].second)}
    /\ \A k \in 1..2 : \E i \in 1..Len(Delivered[k]) :
           /\ Requestable(Delivered[k][i])
           /\ RequestKey(Delivered[k][i]) \in requestedAddresses

====
